---- MODULE Spec2Model ----
(***************************************************************************)
(* Model of the crowd-up moderation server (server/src): the rule engine,  *)
(* the URL checker, the image analyser, the LLM adapter, the risk fusion   *)
(* of POST /api/moderate and the in-memory moderation queue with its       *)
(* review, listing and health endpoints; and of the moderation dashboard   *)
(* component (src/components/ModerationDashboard.tsx) that reviews items.  *)
(*                                                                         *)
(* Scores are kept in tenths: 3 stands for 0.3, 10 for 1.0.                *)
(* A text is the set of marker phrases it contains together with a size    *)
(* class; every includes()/regex test of the source is the set of marker   *)
(* phrases that the pattern matches.                                       *)
(***************************************************************************)
EXTENDS Integers, Sequences, FiniteSets, TLC

VARIABLES
    approveBelow,     \* parseFloat(AUTO_APPROVE_THRESHOLD || '0.3'), in tenths
    holdBelow,        \* parseFloat(MANUAL_REVIEW_THRESHOLD || '0.6'), in tenths
    openai,           \* TRUE iff an OpenAI client was constructed at load time
    req,              \* the in-flight POST /api/moderate handlers
    moderationQueue,  \* the in-memory array of queue items
    now,              \* the wall clock read by Date.now() / new Date()
    lastReview,       \* response of the latest POST /api/moderation-queue/:id/review
    queue,            \* ModerationDashboard: the items the dashboard lists
    selectedItem,     \* ModerationDashboard: <<>> for null, else <<item>>
    reviewNotes,      \* ModerationDashboard: the notes typed in the modal
    reviewLoading,    \* ModerationDashboard: a review is being submitted
    detailsOpened,    \* ModerationDashboard: the details modal is open
    reviewCall,       \* the ModerationService.reviewModerationItem call awaited
    quickClick        \* the latest Quick Approve / Quick Reject click and its call

\* the state of the dashboard component
dashboard == <<queue, selectedItem, reviewNotes, reviewLoading, detailsOpened,
               reviewCall, quickClick>>

vars == <<approveBelow, holdBelow, openai, req, moderationQueue, now, lastReview,
          dashboard>>

\* ------------------------------------------------------------------ bounds
MaxQueue == 2
MaxClock == 1
MaxPhrases == 1

\* ----------------------------------------------------------------- helpers
Max2(a, b) == IF a >= b THEN a ELSE b

Min2(a, b) == IF a <= b THEN a ELSE b

RECURSIVE SeqMax(_, _)
\* Math.max(init, ...s)
SeqMax(init, s) == IF s = <<>> THEN init ELSE SeqMax(Max2(init, Head(s)), Tail(s))

RECURSIVE SetMax(_, _)
\* Math.max(init, ...Object.values(S))
SetMax(init, S) ==
    IF S = {} THEN init
    ELSE LET x == CHOOSE y \in S : TRUE IN SetMax(Max2(init, x), S \ {x})

Undefined == "undefined"

\* ------------------------------------------------------------- rule engine
\* Marker phrases a lower-cased text may contain.
Phrases == {"guaranteed returns", "limited time giveaway", "upi", "telegram",
            "surgery", "cancer", "hospital letter", "official", "urgent"}

\* Size classes of title + "\n" + description:
\*   brief      description under 50 characters or under 20 words
\*   short      at least 20 words, under 50 words
\*   long       at least 50 words, unique-word ratio at least 0.6
\*   repetitive at least 50 words, unique-word ratio under 0.6
\*   repeated   long, with the same 10+ characters three times in a row or
\*              with two identical consecutive lines
SizeClasses == {"brief", "short", "long", "repetitive", "repeated"}

bannedFinancialPhrases == {"guaranteed returns", "limited time giveaway"}

paymentBypassRegexNoMessaging == {"upi", "upi id"}

\* /(upi|paytm|gpay|phonepe|bitcoin|btc|eth|wallet|ifsc|...|whatsapp|telegram|...)/i
paymentBypassRegex == {"upi", "telegram", "upi id"}

medicalKeywords == {"surgery", "cancer", "hospital letter"}

hasVerificationDocsRegex == {"hospital letter"}

impersonationKeywords == {"official"}

urgencyPhrases == {"urgent", "limited time giveaway"}

Includes(text, pattern) == text \cap pattern # {}

\* `${campaign.title}\n${campaign.description}`.toLowerCase()
RuleText(c) == c.title \cup c.description

\* campaign.images.map(img => img.ocrText || '').join(' '); a missing ocrText and
\* the empty string are both {}
RECURSIVE imageOcrText(_)
imageOcrText(images) ==
    IF images = <<>> THEN {}
    ELSE Head(images).ocrText \cup imageOcrText(Tail(images))

duplicatePatterns(c) == c.size = "repeated"

\* wordCount < 50 || uniqueRatio < 0.6
lowQuality(c) == c.size \in {"brief", "short", "repetitive"}

\* campaign.creator.accountAgeDays < 3 && campaign.goal > 200000
newAccountHighGoal(c) == c.creator.accountAgeDays < 3 /\ c.goal > 200000

unverifiedHighGoalInverted(c) == c.creator.verifiedEmail /\ c.goal > 100000

\* !campaign.creator.verifiedEmail && campaign.goal > 100000
unverifiedHighGoal(c) == ~c.creator.verifiedEmail /\ c.goal > 100000

\* The nine checks of performRuleChecks in source order: whether each
\* matches, the floor it raises the score to and the reason it pushes.
RuleTable(c) ==
    LET text == RuleText(c) IN
    << [hit  |-> Includes(text, bannedFinancialPhrases),
        floor |-> 7,
        rule |-> "Detected financial scam language (guaranteed returns, MLM, etc.)"],
       [hit  |-> Includes(text, paymentBypassRegex)
                 \/ Includes(imageOcrText(c.images), paymentBypassRegex),
        floor |-> 9,
        rule |-> "Direct payment instructions found (bypassing platform fees)"],
       [hit  |-> Includes(text, medicalKeywords)
                 /\ ~Includes(text, hasVerificationDocsRegex),
        floor |-> 4,
        rule |-> "Medical fundraising without verification documents"],
       [hit  |-> newAccountHighGoal(c),
        floor |-> 4,
        rule |-> "New account (<3 days) requesting high amount (>200k)"],
       [hit  |-> unverifiedHighGoal(c),
        floor |-> 3,
        rule |-> "Unverified email with high goal amount"],
       [hit  |-> duplicatePatterns(c),
        floor |-> 3,
        rule |-> "Potential duplicate or spam content detected"],
       [hit  |-> lowQuality(c),
        floor |-> 2,
        rule |-> "Low quality content (too short or repetitive)"],
       [hit  |-> Includes(text, impersonationKeywords) /\ ~c.creator.verifiedIdentity,
        floor |-> 5,
        rule |-> "Potential impersonation without identity verification"],
       [hit  |-> Includes(text, urgencyPhrases),
        floor |-> 3,
        rule |-> "High-pressure urgency tactics detected"] >>

RuleScoreSum(score, floor) == score + floor

\* score = Math.max(score, floor)
RuleScoreStep(score, floor) == Max2(score, floor)

RECURSIVE RunRules(_, _)
RunRules(table, acc) ==
    IF table = <<>> THEN acc
    ELSE LET t == Head(table) IN
         RunRules(Tail(table),
                  IF t.hit
                  THEN [score |-> RuleScoreStep(acc.score, t.floor),
                        rules |-> Append(acc.rules, t.rule)]
                  ELSE acc)

performRuleChecks(c) == RunRules(RuleTable(c), [score |-> 0, rules |-> <<>>])

\* ------------------------------------------------------------- URL checker
Urls == {"https://example.org/story", "https://bit.ly/abc", "https://donate.tk/x",
         "http://192.168.1.10/pay", "https://bit.ly.tk/x", "not a url"}

\* new URL(url) does not throw
UrlParses(url) == url # "not a url"

\* shorteners.some(shortener => urlObj.hostname.includes(shortener))
IsShortener(url) == url \in {"https://bit.ly/abc", "https://bit.ly.tk/x"}

\* suspiciousTlds.some(tld => urlObj.hostname.endsWith(tld))
IsSuspiciousTld(url) == url \in {"https://donate.tk/x", "https://bit.ly.tk/x"}

\* /^\d+\.\d+\.\d+\.\d+/.test(urlObj.hostname)
IsIpHost(url) == url = "http://192.168.1.10/pay"

\* The findings pushed for one url, in source order.
UrlFindings(url) ==
    IF ~UrlParses(url)
    THEN << [url |-> url, risk |-> 3, reason |-> "Malformed URL"] >>
    ELSE (IF IsShortener(url)
          THEN << [url |-> url, risk |-> 4,
                   reason |-> "URL shortener detected - potential redirect hiding"] >>
          ELSE <<>>)
         \o (IF IsSuspiciousTld(url)
             THEN << [url |-> url, risk |-> 5, reason |-> "Suspicious top-level domain"] >>
             ELSE <<>>)
         \o (IF IsIpHost(url)
             THEN << [url |-> url, risk |-> 6,
                      reason |-> "Direct IP address instead of domain name"] >>
             ELSE <<>>)

RECURSIVE checkUrlSafety(_)
checkUrlSafety(urls) ==
    IF urls = <<>> THEN <<>> ELSE UrlFindings(Head(urls)) \o checkUrlSafety(Tail(urls))

RECURSIVE MapRisk(_)
MapRisk(findings) ==
    IF findings = <<>> THEN <<>> ELSE <<Head(findings).risk>> \o MapRisk(Tail(findings))

\* Math.max(0, ...urlFindings.map(f => f.risk))
UrlRisk(findings) == SeqMax(0, MapRisk(findings))

\* ---------------------------------------------------------- image analyser
\* Texts the OCR collaborator may recognise, as sets of marker phrases;
\* {} is the empty string.
riskyPatterns == {"upi id", "guaranteed return"}

allowedTypes == {"image/jpeg", "image/png", "image/webp"}

moderateImage(image) ==
    IF image.mime \notin allowedTypes
    THEN [score |-> 3, labels |-> <<"unsupported_format">>]
    ELSE IF image.large
         THEN [score |-> 2, labels |-> <<"large_file_size">>]
         ELSE [score |-> 0, labels |-> <<>>]

\* analyzeImage once extractTextFromImage has returned ocrText
analyzeImage(image, ocrText) ==
    LET m == moderateImage(image) IN
    IF ocrText # {} /\ Includes(ocrText, riskyPatterns)
    THEN [score |-> Max2(m.score, 7),
          labels |-> Append(m.labels, "risky_text_in_image"),
          ocrText |-> ocrText]
    ELSE [score |-> m.score, labels |-> m.labels, ocrText |-> ocrText]

RECURSIVE MapScore(_)
MapScore(results) ==
    IF results = <<>> THEN <<>> ELSE <<Head(results).score>> \o MapScore(Tail(results))

\* imageResults.reduce((max, result) => Math.max(max, result.score), 0)
ImageRisk(results) == SeqMax(0, MapScore(results))

\* ------------------------------------------------------------- LLM adapter
Categories == {"SCAM_FINANCIAL", "IMPERSONATION", "MEDICAL_CLAIMS", "PAYMENT_BYPASS",
               "VIOLENT_ADULT_HATE", "SENSITIVE_DOCS", "LOW_QUALITY_SPAM"}

Decisions == {"APPROVE", "HOLD", "REJECT"}

ZeroScores == [k \in Categories |-> 0]

\* A JSON value is a number (v in tenths) or something else (string, null ..).
Num(v) == [num |-> TRUE, v |-> v]

NotNum == [num |-> FALSE, v |-> 0]

ClampNoop(value) == IF value.num THEN value.v ELSE 0

\* typeof value !== 'number' || isNaN(value) ? 0 : Math.max(0, Math.min(1, value))
Clamp(value) == IF ~value.num THEN 0 ELSE Max2(0, Min2(10, value.v))

\* maxScore < 0.3 ? 'APPROVE' : maxScore < 0.6 ? 'HOLD' : 'REJECT'; Math.max() of
\* no argument is -Infinity
ScoreDecision(scores) ==
    LET maxScore == SetMax(-1, {scores[k] : k \in DOMAIN scores}) IN
    IF maxScore < 3 THEN "APPROVE" ELSE IF maxScore < 6 THEN "HOLD" ELSE "REJECT"

LLMFallbackApprove ==
    [scores |-> [k \in Categories |-> 0],
     decision |-> "APPROVE",
     rationale |-> [iterable |-> TRUE,
                    items |-> <<"LLM analysis failed - manual review required">>],
     error |-> TRUE]

\* the catch block of performLLMModeration
LLMFallback ==
    [scores |-> ZeroScores,
     decision |-> "HOLD",
     rationale |-> [iterable |-> TRUE,
                    items |-> <<"LLM analysis failed - manual review required">>],
     error |-> TRUE]

\* performLLMModeration once openai.chat.completions.create has settled with
\* `outcome`: kind is "throw" (rejected promise, timeout), "empty" (no content),
\* "badjson" (JSON.parse throws), "noscores" (Object.entries(undefined) throws)
\* or "json" (scores, decision and rationale as parsed).
ParseLLM(outcome) ==
    IF outcome.kind # "json" THEN LLMFallback
    ELSE LET scores == [k \in DOMAIN outcome.scores |-> Clamp(outcome.scores[k])] IN
         [scores |-> scores,
          decision |-> IF outcome.decision \in Decisions THEN outcome.decision
                       ELSE ScoreDecision(scores),
          rationale |-> outcome.rationale,
          error |-> FALSE]

mockFinancial == {"guaranteed returns"}

mockPayment == {"upi"}

mockMedical == {"surgery"}

mockMedicalDocs == {"hospital letter"}

\* `${campaign.title} ${campaign.description}`.toLowerCase()
MockText(c) == c.title \cup c.description

getMockLLMResponse(c) ==
    LET text == MockText(c)
        fin == Includes(text, mockFinancial)
        pay == Includes(text, mockPayment)
        med == Includes(text, mockMedical) /\ ~Includes(text, mockMedicalDocs)
        low == c.size = "brief"
        scores == [k \in Categories |->
                     IF k = "SCAM_FINANCIAL" /\ fin THEN 8
                     ELSE IF k = "PAYMENT_BYPASS" /\ pay THEN 9
                     ELSE IF k = "MEDICAL_CLAIMS" /\ med THEN 5
                     ELSE IF k = "LOW_QUALITY_SPAM" /\ low THEN 4
                     ELSE 0]
    IN [scores |-> scores,
        decision |-> ScoreDecision(scores),
        rationale |->
          [iterable |-> TRUE,
           items |->
             (IF fin THEN <<"Contains financial scam language (guaranteed returns)">>
              ELSE <<>>)
             \o (IF pay THEN <<"Contains direct payment instructions bypassing platform">>
                 ELSE <<>>)
             \o (IF med
                 THEN <<"Medical fundraising without proper verification documents">>
                 ELSE <<>>)
             \o (IF low THEN <<"Content appears to be low quality or too brief">>
                 ELSE <<>>)],
        error |-> FALSE]

\* ------------------------------------------------------------ risk fusion
CampaignSchemaTitleOnly(c) == c.titleLen >= 3 /\ c.titleLen <= 200

\* CampaignSchema.safeParse succeeds
CampaignSchemaOk(c) ==
    /\ c.titleLen >= 3 /\ c.titleLen <= 200
    /\ c.descLen >= 20 /\ c.descLen <= 5000
    /\ c.goal > 0
    /\ c.category # ""
    /\ \A i \in 1..Len(c.links) : UrlParses(c.links[i])
    /\ c.creator.accountAgeDays >= 0

RiskSum(ruleScore, urlRisk, imageRisk, scores) ==
    ruleScore + urlRisk + imageRisk + SetMax(0, {scores[k] : k \in DOMAIN scores})

\* Math.max(ruleResults.score, urlRisk, imageRisk, ...Object.values(llmResult.scores))
Risk(ruleScore, urlRisk, imageRisk, scores) ==
    SetMax(Max2(ruleScore, Max2(urlRisk, imageRisk)), {scores[k] : k \in DOMAIN scores})

BaselineInclusive(risk, approve, hold) ==
    IF risk <= approve THEN "APPROVE" ELSE IF risk <= hold THEN "HOLD" ELSE "REJECT"

\* risk < autoApproveThreshold ? 'APPROVE' : risk < manualReviewThreshold ? 'HOLD' : 'REJECT'
BaselineDecision(risk, approve, hold) ==
    IF risk < approve THEN "APPROVE" ELSE IF risk < hold THEN "HOLD" ELSE "REJECT"

OverrideAdopt(decision, llmDecision) == llmDecision

\* if (llmResult.decision === 'REJECT') decision = 'REJECT';
\* if (llmResult.decision === 'HOLD' && decision === 'APPROVE') decision = 'HOLD';
Override(decision, llmDecision) ==
    IF llmDecision = "REJECT" THEN "REJECT"
    ELSE IF llmDecision = "HOLD" /\ decision = "APPROVE" THEN "HOLD"
    ELSE decision

\* A rationale entry is a string: `${prefix}${text}` or `${prefix}${labels.join(', ')}`.
Entry(prefix, text, labels) == [prefix |-> prefix, text |-> text, labels |-> labels]

RECURSIVE PlainEntries(_)
PlainEntries(strings) ==
    IF strings = <<>> THEN <<>>
    ELSE <<Entry("", Head(strings), <<>>)>> \o PlainEntries(Tail(strings))

RECURSIVE UrlRationale(_)
\* urlFindings.map(f => `URL risk: ${f.reason}`)
UrlRationale(findings) ==
    IF findings = <<>> THEN <<>>
    ELSE <<Entry("URL risk: ", Head(findings).reason, <<>>)>> \o UrlRationale(Tail(findings))

RECURSIVE ImageRationale(_)
\* imageResults.filter(r => r.labels.length > 0).map(r => `Image: ${r.labels.join(', ')}`)
ImageRationale(results) ==
    IF results = <<>> THEN <<>>
    ELSE (IF Len(Head(results).labels) > 0
          THEN <<Entry("Image: ", "", Head(results).labels)>> ELSE <<>>)
         \o ImageRationale(Tail(results))

RECURSIVE ImageFindings(_)
ImageFindings(results) ==
    IF results = <<>> THEN <<>>
    ELSE << [imageId |-> Head(results).imageId, score |-> Head(results).score,
             labels |-> Head(results).labels] >> \o ImageFindings(Tail(results))

ModerationResultClassifierFirst(rq, decision, risk) ==
    [decision |-> decision,
     risk |-> risk,
     scores |-> rq.llmResult.scores,
     rationale |-> PlainEntries(rq.llmResult.rationale.items)
                   \o PlainEntries(rq.ruleResults.rules)
                   \o UrlRationale(rq.urlFindings) \o ImageRationale(rq.imageResults),
     ruleReasons |-> rq.ruleResults.rules,
     imageFindings |-> ImageFindings(rq.imageResults),
     urlFindings |-> rq.urlFindings]

ModerationResultShared(rq, decision, risk) ==
    [decision |-> decision,
     risk |-> risk,
     scores |-> rq.llmResult.scores,
     rationale |-> PlainEntries(req["r1"].ruleResults.rules)
                   \o PlainEntries(rq.llmResult.rationale.items)
                   \o UrlRationale(rq.urlFindings) \o ImageRationale(rq.imageResults),
     ruleReasons |-> req["r1"].ruleResults.rules,
     imageFindings |-> ImageFindings(rq.imageResults),
     urlFindings |-> rq.urlFindings]

\* the object built at `const moderationResult = {...}`
ModerationResult(rq, decision, risk) ==
    [decision |-> decision,
     risk |-> risk,
     scores |-> rq.llmResult.scores,
     rationale |-> PlainEntries(rq.ruleResults.rules)
                   \o PlainEntries(rq.llmResult.rationale.items)
                   \o UrlRationale(rq.urlFindings) \o ImageRationale(rq.imageResults),
     ruleReasons |-> rq.ruleResults.rules,
     imageFindings |-> ImageFindings(rq.imageResults),
     urlFindings |-> rq.urlFindings]

\* ------------------------------------------------------- request handlers
Requests == {"r1", "r2"}

NoResponse == [status |-> 0]

Idle ==
    [pc |-> "idle",
     campaign |-> [id |-> "none"],
     files |-> <<>>,
     ruleResults |-> [score |-> 0, rules |-> <<>>],
     urlFindings |-> <<>>,
     imageResults |-> <<>>,
     signals |-> [urlReputation |-> <<>>, imageOcrFindings |-> <<>>],
     llmOutcome |-> [kind |-> "none"],
     llmResult |-> [decision |-> "none"],
     baseline |-> "none",
     enqueued |-> 0,
     response |-> NoResponse]

RECURSIVE OcrFindings(_)
\* imageResults.filter(r => r.ocrText).map(r => r.ocrText)
OcrFindings(results) ==
    IF results = <<>> THEN <<>>
    ELSE (IF Head(results).ocrText # {} THEN <<Head(results).ocrText>> ELSE <<>>)
         \o OcrFindings(Tail(results))

RECURSIVE UrlReputation(_, _)
\* urlFindings.reduce((acc, finding) => { acc[finding.url] = finding.reason; return acc }, {})
UrlReputation(findings, acc) ==
    IF findings = <<>> THEN acc
    ELSE LET f == Head(findings) IN
         UrlReputation(Tail(findings),
                       [u \in DOMAIN acc \cup {f.url} |-> IF u = f.url THEN f.reason ELSE acc[u]])

InvokeLLMBeforeImages(rq, c) ==
    LET sig == [urlReputation |-> UrlReputation(rq.urlFindings, <<>>),
                imageOcrFindings |-> <<>>] IN
    IF openai
    THEN [rq EXCEPT !.pc = "llm", !.signals = sig]
    ELSE [rq EXCEPT !.pc = "fuse", !.signals = sig, !.llmResult = getMockLLMResponse(c)]

\* Steps 4 and 5 up to the await: the signal bundle is built and
\* performLLMModeration is called; without a client the mock answers at once.
InvokeLLM(rq, c) ==
    LET sig == [urlReputation |-> UrlReputation(rq.urlFindings, <<>>),
                imageOcrFindings |-> OcrFindings(rq.imageResults)] IN
    IF openai
    THEN [rq EXCEPT !.pc = "llm", !.signals = sig]
    ELSE [rq EXCEPT !.pc = "fuse", !.signals = sig, !.llmResult = getMockLLMResponse(c)]

\* POST /api/moderate arrives: the body is validated, then the rule checks and
\* the URL checks run up to the first await that yields.
Receive(r, c, files) ==
    /\ req[r].pc \in {"idle", "done"}
    /\ req' = [req EXCEPT ![r] =
         IF ~CampaignSchemaOk(c)
         THEN [Idle EXCEPT !.pc = "done", !.campaign = c, !.files = files,
                           !.response = [status |-> 400, error |-> "Invalid campaign data"]]
         ELSE [Idle EXCEPT !.pc = "urls", !.campaign = c, !.files = files,
                           !.ruleResults = performRuleChecks(c),
                           !.urlFindings = checkUrlSafety(c.links)]]
    /\ UNCHANGED <<dashboard, approveBelow, holdBelow, openai, moderationQueue, now, lastReview>>

\* The handler resumes after `await checkUrlSafety`: with no uploaded file it
\* goes on to the LLM call, otherwise analyzeImages starts on the first file.
AfterUrls(r) ==
    /\ req[r].pc = "urls"
    /\ req' = [req EXCEPT ![r] =
         IF Len(req[r].files) > 0 THEN [req[r] EXCEPT !.pc = "images"]
         ELSE InvokeLLM(req[r], req[r].campaign)]
    /\ UNCHANGED <<dashboard, approveBelow, holdBelow, openai, moderationQueue, now, lastReview>>

NextImageFromEnd(rq) == Len(rq.files) - Len(rq.imageResults)

\* the position of `for (const image of images)` in analyzeImages: one result
\* has been pushed for every image before it
NextImage(rq) == Len(rq.imageResults) + 1

\* analyzeImage of the next file completes. `ocr` is what extractTextFromImage
\* did: "fault" (createWorker or recognize threw: '' is returned), "terminate"
\* (worker.terminate() threw in the finally block: the rejection reaches the
\* handler's catch) or the recognised text.
ImageAnalysed(r, ocr) ==
    /\ req[r].pc = "images"
    /\ Len(req[r].imageResults) < Len(req[r].files)
    /\ LET k == NextImage(req[r])
           text == IF ocr.kind = "text" THEN ocr.text ELSE {}
           res == analyzeImage(req[r].files[k], text)
       IN req' = [req EXCEPT ![r] =
            IF ocr.kind = "terminate"
            THEN [req[r] EXCEPT !.pc = "done",
                                !.response = [status |-> 500, error |-> "Moderation failed"]]
            ELSE [req[r] EXCEPT !.imageResults =
                    Append(@, [imageId |-> k - 1, score |-> res.score,
                               labels |-> res.labels, ocrText |-> res.ocrText])]]
    /\ UNCHANGED <<dashboard, approveBelow, holdBelow, openai, moderationQueue, now, lastReview>>

\* The handler resumes after `await analyzeImages`.
AfterImages(r) ==
    /\ req[r].pc = "images"
    /\ Len(req[r].imageResults) = Len(req[r].files)
    /\ req' = [req EXCEPT ![r] = InvokeLLM(req[r], req[r].campaign)]
    /\ UNCHANGED <<dashboard, approveBelow, holdBelow, openai, moderationQueue, now, lastReview>>

\* openai.chat.completions.create settles and performLLMModeration returns.
LLMSettled(r, outcome) ==
    /\ req[r].pc = "llm"
    /\ req' = [req EXCEPT ![r] = [req[r] EXCEPT !.pc = "fuse", !.llmOutcome = outcome,
                                                !.llmResult = ParseLLM(outcome)]]
    /\ UNCHANGED <<dashboard, approveBelow, holdBelow, openai, moderationQueue, now, lastReview>>

\* `mod_${Date.now()}_${Math.random().toString(36).substr(2, 9)}`
ItemId(t, rnd) == <<"mod", t, rnd>>

QueueItemReviewed(id, c, result, t) ==
    [id |-> id, campaignId |-> c.id, campaign |-> c, moderationResult |-> result,
     status |-> "REVIEWED", createdAt |-> t,
     reviewedBy |-> Undefined, reviewedAt |-> -1, reviewNotes |-> Undefined]

\* the queueItem literal of the HOLD branch
QueueItem(id, c, result, t) ==
    [id |-> id,
     campaignId |-> c.id,
     campaign |-> c,
     moderationResult |-> result,
     status |-> "PENDING",
     createdAt |-> t,
     reviewedBy |-> Undefined,
     reviewedAt |-> -1,
     reviewNotes |-> Undefined]

EnqueuesUnlessApproved(decision) == decision # "APPROVE"

\* if (decision === 'HOLD')
Enqueues(decision) == decision = "HOLD"

PushReplacing(stored, item) == <<item>>

\* moderationQueue.push(queueItem)
Push(stored, item) == Append(stored, item)

\* Steps 6 and 7 and the response: risk, decision, the verdict, the push on HOLD.
\* Spreading a rationale that is not iterable throws into the handler's catch.
Fuse(r, rnd) ==
    /\ req[r].pc = "fuse"
    /\ LET rq == req[r]
           risk == Risk(rq.ruleResults.score, UrlRisk(rq.urlFindings),
                        ImageRisk(rq.imageResults), rq.llmResult.scores)
           baseline == BaselineDecision(risk, approveBelow, holdBelow)
           decision == Override(baseline, rq.llmResult.decision)
       IN IF ~rq.llmResult.rationale.iterable
          THEN /\ req' = [req EXCEPT ![r] =
                    [rq EXCEPT !.pc = "done", !.baseline = baseline,
                               !.response = [status |-> 500, error |-> "Moderation failed"]]]
               /\ UNCHANGED moderationQueue
          ELSE LET result == ModerationResult(rq, decision, risk) IN
               /\ req' = [req EXCEPT ![r] =
                    [rq EXCEPT !.pc = "done", !.baseline = baseline,
                               !.enqueued = IF Enqueues(decision) THEN 1 ELSE 0,
                               !.response = [status |-> 200, body |-> result]]]
               /\ moderationQueue' =
                    IF Enqueues(decision)
                    THEN Push(moderationQueue,
                              QueueItem(ItemId(now, rnd), rq.campaign, result, now))
                    ELSE moderationQueue
    /\ UNCHANGED <<dashboard, approveBelow, holdBelow, openai, now, lastReview>>

\* --------------------------------------------------------- queue endpoints
RECURSIVE FindIndex(_, _, _)
\* moderationQueue.find(i => i.id === id): the first match, 0 when there is none
FindIndex(stored, id, k) ==
    IF k > Len(stored) THEN 0
    ELSE IF stored[k].id = id THEN k ELSE FindIndex(stored, id, k + 1)

ReviewedNoDecision(item, decision, notes, reviewerId, t) ==
    [item EXCEPT !.status = "REVIEWED", !.reviewedBy = reviewerId,
                 !.reviewedAt = t, !.reviewNotes = notes]

ReviewedReopens(item, decision, notes, reviewerId, t) ==
    [item EXCEPT !.status = IF @ = "REVIEWED" THEN "PENDING" ELSE "REVIEWED",
                 !.reviewedBy = reviewerId, !.reviewedAt = t, !.reviewNotes = notes,
                 !.moderationResult.decision = decision]

\* the five assignments of the review handler
Reviewed(item, decision, notes, reviewerId, t) ==
    [item EXCEPT !.status = "REVIEWED", !.reviewedBy = reviewerId,
                 !.reviewedAt = t, !.reviewNotes = notes,
                 !.moderationResult.decision = decision]

ReviewDecisionFirst(id, decision, notes, reviewerId) ==
    LET k == FindIndex(moderationQueue, id, 1) IN
    /\ IF decision \notin {"APPROVE", "REJECT"}
       THEN /\ lastReview' = [status |-> 400, id |-> id, decision |-> decision]
            /\ UNCHANGED moderationQueue
       ELSE IF k = 0
       THEN /\ lastReview' = [status |-> 404, id |-> id, decision |-> decision]
            /\ UNCHANGED moderationQueue
       ELSE /\ moderationQueue' =
                 [moderationQueue EXCEPT ![k] = Reviewed(@, decision, notes, reviewerId, now)]
            /\ lastReview' = [status |-> 200, id |-> id, decision |-> decision]
    /\ UNCHANGED <<approveBelow, holdBelow, openai, req, now>>

ReviewAnyDecision(id, decision, notes, reviewerId) ==
    LET k == FindIndex(moderationQueue, id, 1) IN
    /\ IF k = 0
       THEN /\ lastReview' = [status |-> 404, id |-> id, decision |-> decision]
            /\ UNCHANGED moderationQueue
       ELSE /\ moderationQueue' =
                 [moderationQueue EXCEPT ![k] = Reviewed(@, decision, notes, reviewerId, now)]
            /\ lastReview' = [status |-> 200, id |-> id, decision |-> decision]
    /\ UNCHANGED <<approveBelow, holdBelow, openai, req, now>>

\* POST /api/moderation-queue/:id/review
Review(id, decision, notes, reviewerId) ==
    LET k == FindIndex(moderationQueue, id, 1) IN
    /\ IF k = 0
       THEN /\ lastReview' = [status |-> 404, id |-> id, decision |-> decision]
            /\ UNCHANGED moderationQueue
       ELSE IF decision \notin {"APPROVE", "REJECT"}
       THEN /\ lastReview' = [status |-> 400, id |-> id, decision |-> decision]
            /\ UNCHANGED moderationQueue
       ELSE /\ moderationQueue' =
                 [moderationQueue EXCEPT ![k] = Reviewed(@, decision, notes, reviewerId, now)]
            /\ lastReview' = [status |-> 200, id |-> id, decision |-> decision]
    /\ UNCHANGED <<approveBelow, holdBelow, openai, req, now>>

RECURSIVE InsertDesc(_, _)
\* item placed after every element created at the same time or later
InsertDesc(sorted, item) ==
    IF sorted = <<>> THEN <<item>>
    ELSE IF Head(sorted).createdAt >= item.createdAt
         THEN <<Head(sorted)>> \o InsertDesc(Tail(sorted), item)
         ELSE <<item>> \o sorted

RECURSIVE SortDesc(_, _)
\* Array.prototype.sort with (a, b) => time(b) - time(a): stable, newest first
SortDesc(items, acc) ==
    IF items = <<>> THEN acc ELSE SortDesc(Tail(items), InsertDesc(acc, Head(items)))

IsPending(item) == item.status = "PENDING"

\* The body GET /api/moderation-queue answers with: filter makes a new array
\* and sort orders that copy.
PendingItems == SortDesc(SelectSeq(moderationQueue, IsPending), <<>>)

SortedInPlace(stored) == SortDesc(stored, <<>>)

\* moderationQueue after the listing: filter returned a new array and sort
\* ordered that array, so the stored array is as it was
AfterListing(stored) == stored

\* GET /api/moderation-queue: answers PendingItems
ListPending ==
    /\ moderationQueue' = AfterListing(moderationQueue)
    /\ UNCHANGED <<dashboard, approveBelow, holdBelow, openai, req, now, lastReview>>

QueueSizeTotal == Len(moderationQueue)

\* queueSize in the body of GET /health
QueueSize == Len(SelectSeq(moderationQueue, IsPending))

\* GET /health: answers QueueSize, assigns nothing
Health == UNCHANGED vars

\* the wall clock advances
Tick ==
    /\ now < MaxClock
    /\ now' = now + 1
    /\ UNCHANGED <<dashboard, approveBelow, holdBelow, openai, req, moderationQueue, lastReview>>

\* ------------------------------------------------------------------ inputs
\* Threshold configurations <<approveBelow, holdBelow>>; <<3, 6>> is the default.
Configs == {<<3, 6>>, <<2, 5>>, <<5, 10>>, <<0, 6>>}

CleanCampaign ==
    [id |-> "c1", title |-> {}, titleLen |-> 20, description |-> {}, descLen |-> 400,
     size |-> "long", goal |-> 50000, category |-> "community",
     links |-> <<>>, images |-> <<>>,
     creator |-> [accountAgeDays |-> 30, verifiedEmail |-> TRUE, verifiedIdentity |-> FALSE]]

MedicalCampaign == [CleanCampaign EXCEPT !.id = "c2", !.description = {"cancer"}]

UpiCampaign == [CleanCampaign EXCEPT !.id = "c3", !.description = {"upi"}]

InvalidCampaign == [CleanCampaign EXCEPT !.id = "c4", !.titleLen = 2]

PngFile == [mime |-> "image/png", large |-> FALSE]

\* The submissions of the system specification: <<campaign, uploaded files>>.
Submissions == {<<MedicalCampaign, <<>>>>, <<CleanCampaign, <<PngFile>>>>,
                <<UpiCampaign, <<>>>>, <<InvalidCampaign, <<>>>>}

OcrText(t) == [kind |-> "text", text |-> t]

OcrFault(kind) == [kind |-> kind, text |-> {}]

OcrOutcomes == {OcrText({}), OcrFault("terminate")}

List(items) == [iterable |-> TRUE, items |-> items]

NotIterable == [iterable |-> FALSE, items |-> <<>>]

Json(scores, decision, rationale) ==
    [kind |-> "json", scores |-> scores, decision |-> decision, rationale |-> rationale]

Failure(kind) == [kind |-> kind]

RawZero == [k \in Categories |-> Num(0)]

LLMOutcomes == {Failure("throw"), Json(RawZero, "APPROVE", List(<<>>))}

RandomSuffixes == {"k3x9", "p7q2"}

\* decision of the request body; Undefined when the body carries none
ReviewDecisions == {"APPROVE", "REJECT", "HOLD", Undefined}

ReviewNotes == {"looks fine"}

Reviewers == {"alice", "bob"}

QueueIds == {moderationQueue[i].id : i \in 1..Len(moderationQueue)}

UnknownId == ItemId(0, "none")

\* The inputs of the pipeline specification.
Descriptions == {d \in SUBSET Phrases : Cardinality(d) <= MaxPhrases}

TextCampaigns ==
    {[CleanCampaign EXCEPT !.description = d, !.size = s,
                           !.descLen = IF s = "brief" THEN 30 ELSE 400] :
        d \in Descriptions, s \in SizeClasses}

Creators == [accountAgeDays : {1, 30}, verifiedEmail : BOOLEAN, verifiedIdentity : BOOLEAN]

CreatorCampaigns ==
    {[CleanCampaign EXCEPT !.goal = g, !.creator = cr, !.description = d] :
        g \in {50000, 150000, 1000000}, cr \in Creators, d \in {{}, {"official"}}}

LinkLists == {<<u>> : u \in Urls} \cup {<<"http://192.168.1.10/pay", "https://bit.ly/abc">>}

LinkCampaigns == {[CleanCampaign EXCEPT !.links = l] : l \in LinkLists}

\* campaign.images carries text the caller attached to an image
OcrCampaign == [CleanCampaign EXCEPT !.images = <<[ocrText |-> {"upi id"}]>>]

\* the end-to-end scenario: scam title, UPI identifier, new unverified creator
ScenarioCampaign ==
    [CleanCampaign EXCEPT !.title = {"guaranteed returns"}, !.description = {"upi"},
                          !.goal = 1000000,
                          !.creator = [accountAgeDays |-> 1, verifiedEmail |-> FALSE,
                                       verifiedIdentity |-> FALSE]]

InvalidCampaigns ==
    {InvalidCampaign, [CleanCampaign EXCEPT !.descLen = 10, !.size = "brief"],
     [CleanCampaign EXCEPT !.goal = 0], [CleanCampaign EXCEPT !.category = ""]}

WideCampaigns ==
    TextCampaigns \cup CreatorCampaigns \cup LinkCampaigns \cup InvalidCampaigns
    \cup {OcrCampaign, ScenarioCampaign}

GifFile == [mime |-> "image/gif", large |-> FALSE]

LargeFile == [mime |-> "image/png", large |-> TRUE]

WideFileBatches == {<<PngFile>>, <<GifFile>>, <<LargeFile>>, <<PngFile, LargeFile>>}

\* a campaign on which every producer finds something
FullCampaign == [MedicalCampaign EXCEPT !.links = <<"https://bit.ly.tk/x">>]

WideSubmissions ==
    {<<c, <<>>>> : c \in WideCampaigns}
    \cup {<<c, f>> : c \in {CleanCampaign, MedicalCampaign, UpiCampaign}, f \in WideFileBatches}
    \cup {<<FullCampaign, <<GifFile>>>>}

WideOcrOutcomes ==
    {OcrText({}), OcrText({"thank you"}), OcrText({"upi id"}),
     OcrFault("fault"), OcrFault("terminate")}

RawValues == {Num(2), Num(3), Num(5), Num(6), Num(9), Num(10), Num(15), Num(0 - 3), NotNum}

ScoreMaps ==
    {RawZero}
    \cup {[RawZero EXCEPT !["PAYMENT_BYPASS"] = v] : v \in RawValues}
    \cup {[RawZero EXCEPT !["SCAM_FINANCIAL"] = Num(4), !["LOW_QUALITY_SPAM"] = Num(7)]}
    \cup {[k \in Categories \ {"SENSITIVE_DOCS"} |-> Num(0)], [k \in {} |-> Num(0)]}

WideLLMOutcomes ==
    {Json(m, d, List(<<"flagged by the classifier">>)) :
        m \in ScoreMaps, d \in Decisions \cup {"MAYBE"}}
    \cup {Json(RawZero, "APPROVE", List(<<>>)), Json(RawZero, "APPROVE", NotIterable)}
    \cup {Failure(k) : k \in {"throw", "empty", "badjson", "noscores"}}

\* ------------------------------------------------------ moderation dashboard
\* the state of the server, which the dashboard reaches only through requests
server == <<approveBelow, holdBelow, openai, req, moderationQueue, now, lastReview>>

\* useState<IModerationQueue | null>(null)
Null == <<>>

\* no ModerationService.reviewModerationItem call is awaited
NoCall == [state |-> "none"]

\* the useState initial values; nothing was clicked yet
DashboardInit ==
    /\ queue = <<>>
    /\ selectedItem = Null
    /\ reviewNotes = ""
    /\ reviewLoading = FALSE
    /\ detailsOpened = FALSE
    /\ reviewCall = NoCall
    /\ quickClick = <<>>

\* loadQueue: setQueue(await ModerationService.getModerationQueue()), the body
\* of GET /api/moderation-queue
loadQueue ==
    /\ queue' = PendingItems
    /\ UNCHANGED <<server, selectedItem, reviewNotes, reviewLoading, detailsOpened,
                   reviewCall, quickClick>>

\* View Details on a listed item
openItemDetails(item) ==
    /\ selectedItem' = <<item>>
    /\ reviewNotes' = ""
    /\ detailsOpened' = TRUE
    /\ UNCHANGED <<server, queue, reviewLoading, reviewCall, quickClick>>

\* Cancel, or the modal's onClose: only the disclosure flag is cleared
closeDetails ==
    /\ detailsOpened
    /\ detailsOpened' = FALSE
    /\ UNCHANGED <<server, queue, selectedItem, reviewNotes, reviewLoading,
                   reviewCall, quickClick>>

\* the Textarea of the modal, rendered for a PENDING selected item
setReviewNotes(notes) ==
    /\ detailsOpened
    /\ selectedItem # Null
    /\ selectedItem[1].status = "PENDING"
    /\ reviewNotes' = notes
    /\ UNCHANGED <<server, queue, selectedItem, reviewLoading, detailsOpened,
                   reviewCall, quickClick>>

\* handleReview up to its await. selectedItem and reviewNotes are the constants
\* of the render whose handler runs: a setSelectedItem earlier in the same
\* click handler changes the next render, not these.
handleReview(decision) ==
    IF selectedItem = Null
    THEN UNCHANGED <<reviewLoading, reviewCall>>
    ELSE /\ reviewLoading' = TRUE
         /\ reviewCall' = [state |-> "sent", id |-> selectedItem[1].id,
                           decision |-> decision, notes |-> reviewNotes,
                           reviewerId |-> "admin"]

\* Quick Approve / Quick Reject of a listed PENDING item:
\* setSelectedItem(item); handleReview(decision)
QuickReview(item, decision) ==
    /\ reviewCall.state = "none"
    /\ item.status = "PENDING"
    /\ selectedItem' = <<item>>
    /\ handleReview(decision)
    /\ quickClick' = <<[id |-> item.id, decision |-> decision, call |-> reviewCall']>>
    /\ UNCHANGED <<server, queue, reviewNotes, detailsOpened>>

\* Approve / Reject of the modal, rendered for a PENDING selected item
ModalReview(decision) ==
    /\ reviewCall.state = "none"
    /\ detailsOpened
    /\ selectedItem # Null
    /\ selectedItem[1].status = "PENDING"
    /\ handleReview(decision)
    /\ UNCHANGED <<server, queue, selectedItem, reviewNotes, detailsOpened, quickClick>>

\* the awaited call reaches POST /api/moderation-queue/:id/review
ServeReview ==
    /\ reviewCall.state = "sent"
    /\ Review(reviewCall.id, reviewCall.decision, reviewCall.notes, reviewCall.reviewerId)
    /\ reviewCall' = [reviewCall EXCEPT !.state = "answered"]
    /\ UNCHANGED <<queue, selectedItem, reviewNotes, reviewLoading, detailsOpened,
                   quickClick>>

\* handleReview after its await: loadQueue, closeDetails, setSelectedItem(null),
\* setReviewNotes(''), and setReviewLoading(false) of the finally block
ReviewResolved ==
    /\ reviewCall.state = "answered"
    /\ queue' = PendingItems
    /\ detailsOpened' = FALSE
    /\ selectedItem' = Null
    /\ reviewNotes' = ""
    /\ reviewLoading' = FALSE
    /\ reviewCall' = NoCall
    /\ UNCHANGED <<server, quickClick>>

\* the awaited call throws: the catch block notifies, finally clears the flag
ReviewFailed ==
    /\ reviewCall.state = "sent"
    /\ reviewLoading' = FALSE
    /\ reviewCall' = NoCall
    /\ UNCHANGED <<server, queue, selectedItem, reviewNotes, detailsOpened, quickClick>>

\* ------------------------------------------------------------ specification
Init ==
    /\ DashboardInit
    /\ \E cfg \in Configs : approveBelow = cfg[1] /\ holdBelow = cfg[2]
    /\ openai \in BOOLEAN
    /\ req = [r \in Requests |-> Idle]
    /\ moderationQueue = <<>>
    /\ now = 0
    /\ lastReview = NoResponse

\* The server started with the default thresholds.
DefaultInit == Init /\ approveBelow = 3 /\ holdBelow = 6

Submit ==
    /\ Len(moderationQueue) < MaxQueue
    /\ \E s \in Submissions : Receive("r1", s[1], s[2])

ReviewRequest ==
    \E id \in QueueIds \cup {UnknownId}, d \in ReviewDecisions, n \in ReviewNotes,
       who \in Reviewers : Review(id, d, n, who) /\ UNCHANGED dashboard

Next ==
    \/ Submit
    \/ AfterUrls("r1")
    \/ \E ocr \in OcrOutcomes : ImageAnalysed("r1", ocr)
    \/ AfterImages("r1")
    \/ \E outcome \in LLMOutcomes : LLMSettled("r1", outcome)
    \/ \E rnd \in RandomSuffixes : Fuse("r1", rnd)
    \/ ReviewRequest
    \/ ListPending
    \/ Health
    \/ Tick

\* The whole server under the default thresholds.
Spec == DefaultInit /\ [][Next]_vars

PipelineSubmit ==
    /\ moderationQueue = <<>>
    /\ req["r1"].pc = "idle"
    /\ \E s \in WideSubmissions : Receive("r1", s[1], s[2])

PipelineNext ==
    \/ PipelineSubmit
    \/ AfterUrls("r1")
    \/ \E ocr \in WideOcrOutcomes : ImageAnalysed("r1", ocr)
    \/ AfterImages("r1")
    \/ \E outcome \in WideLLMOutcomes : LLMSettled("r1", outcome)
    \/ Fuse("r1", "k3x9")

\* One moderation pass on a freshly started server, for every threshold
\* configuration and the wide inputs.
PipelineSpec == Init /\ [][PipelineNext]_vars

\* Two moderation requests in flight at once, interleaved at every await.
InterleavedSubmissions == {<<MedicalCampaign, <<>>>>, <<UpiCampaign, <<>>>>,
                           <<CleanCampaign, <<PngFile>>>>}

InterleavedSubmit(r) ==
    /\ Len(moderationQueue) < MaxQueue
    /\ \E s \in InterleavedSubmissions : Receive(r, s[1], s[2])

InterleavedNext ==
    \/ \E r \in Requests : InterleavedSubmit(r)
    \/ \E r \in Requests : AfterUrls(r)
    \/ \E r \in Requests : ImageAnalysed(r, OcrText({}))
    \/ \E r \in Requests : AfterImages(r)
    \/ \E r \in Requests, outcome \in LLMOutcomes : LLMSettled(r, outcome)
    \/ \E r \in Requests : Fuse(r, "k3x9")
    \/ Tick

InterleavedSpec == DefaultInit /\ [][InterleavedNext]_vars

\* The life cycle of the queue on a server started without an API key: medical
\* campaigns are held and queued, reviewers send reviews, the clock advances.
QueueInit == DefaultInit /\ openai = FALSE

QueueSubmit ==
    /\ Len(moderationQueue) < MaxQueue
    /\ Receive("r1", MedicalCampaign, <<>>)

\* <<decision, reviewerId>> of the review requests
QueueReviews == {<<"APPROVE", "alice">>, <<"REJECT", "bob">>, <<"HOLD", "alice">>,
                 <<Undefined, "bob">>}

QueueReview ==
    \E id \in QueueIds \cup {UnknownId}, rv \in QueueReviews, n \in ReviewNotes :
        Review(id, rv[1], n, rv[2]) /\ UNCHANGED dashboard

QueueNext ==
    \/ QueueSubmit
    \/ AfterUrls("r1")
    \/ \E rnd \in RandomSuffixes : Fuse("r1", rnd)
    \/ QueueReview
    \/ ListPending
    \/ Health
    \/ Tick

QueueSpec == QueueInit /\ [][QueueNext]_vars

\* The dashboard in front of a server started without an API key: medical
\* campaigns are held and queued while a moderator uses the dashboard.
DashboardDecisions == {"APPROVE", "REJECT"}

DashboardNext ==
    \/ QueueSubmit
    \/ AfterUrls("r1")
    \/ \E rnd \in RandomSuffixes : Fuse("r1", rnd)
    \/ loadQueue
    \/ \E i \in 1..Len(queue) : openItemDetails(queue[i])
    \/ closeDetails
    \/ \E n \in ReviewNotes : setReviewNotes(n)
    \/ \E i \in 1..Len(queue), d \in DashboardDecisions : QuickReview(queue[i], d)
    \/ \E d \in DashboardDecisions : ModalReview(d)
    \/ ServeReview
    \/ ReviewResolved
    \/ ReviewFailed

DashboardSpec == QueueInit /\ [][DashboardNext]_vars

\* ================================================================== claims
R == req["r1"]

\* the handler answered 200 with a verdict
Answered == R.pc = "done" /\ R.response.status = 200

Verdict == R.response.body

Rank(d) == IF d = "APPROVE" THEN 0 ELSE IF d = "HOLD" THEN 1 ELSE 2

\* m is the greatest element of the non-empty set S
IsMaxOf(m, S) == m \in S /\ \A x \in S : x <= m

\* the four component scores of the pass, each 0 when its producer found nothing
RuleComponent == R.ruleResults.score

UrlComponent ==
    LET S == {R.urlFindings[i].risk : i \in 1..Len(R.urlFindings)} IN
    IF S = {} THEN 0 ELSE CHOOSE m \in S : IsMaxOf(m, S)

ImageComponent ==
    LET S == {R.imageResults[i].score : i \in 1..Len(R.imageResults)} IN
    IF S = {} THEN 0 ELSE CHOOSE m \in S : IsMaxOf(m, S)

ClassifierComponent ==
    LET S == {Verdict.scores[k] : k \in DOMAIN Verdict.scores} IN
    IF S = {} THEN 0 ELSE CHOOSE m \in S : IsMaxOf(m, S)

\* C1: in every verdict, risk is the maximum of the rule score, the URL risk,
\* the image risk and the largest classifier category score, and lies in [0,1].
C1_RiskIsMax ==
    Answered =>
        /\ IsMaxOf(Verdict.risk,
                   {RuleComponent, UrlComponent, ImageComponent, ClassifierComponent})
        /\ Verdict.risk >= 0 /\ Verdict.risk <= 10

\* a verdict whose risk is neither the sum nor the only positive component
C1_Witness ==
    /\ Answered
    /\ RuleComponent = 4 /\ ImageComponent = 7 /\ ClassifierComponent = 0
    /\ Verdict.risk = 7

C3_Stricter ==
    Answered =>
        /\ R.llmResult.decision \in Decisions
        /\ Rank(Verdict.decision) = Max2(Rank(R.baseline), Rank(R.llmResult.decision))
        /\ Verdict.decision = "APPROVE" =>
             (Verdict.risk < approveBelow /\ R.llmResult.decision = "APPROVE")

\* a classifier HOLD raised a baseline APPROVE, and a classifier APPROVE left a
\* baseline REJECT in place
C3_Witness ==
    /\ Answered
    /\ R.baseline = "REJECT" /\ R.llmResult.decision = "APPROVE"
    /\ Verdict.decision = "REJECT"

InRationale(text) ==
    \E i \in 1..Len(Verdict.rationale) : Verdict.rationale[i] = Entry("", text, <<>>)

ClassifierThrew == R.llmOutcome.kind = "throw"

FailureNote == "LLM analysis failed - manual review required"

\* C4 as stated (under the default thresholds): a pass whose classifier call
\* throws always ends in HOLD with the failure note, never in APPROVE or REJECT.
C4_Original ==
    (Answered /\ ClassifierThrew /\ approveBelow = 3 /\ holdBelow = 6) =>
        (Verdict.decision = "HOLD" /\ InRationale(FailureNote))

\* C4 amended: a pass whose classifier call throws gets the classifier result
\* HOLD and the failure note; its verdict is never APPROVE: it is REJECT when
\* the risk of the other producers reaches holdBelow and HOLD otherwise.
C4_FailureNeverApproves ==
    (Answered /\ ClassifierThrew) =>
        /\ InRationale(FailureNote)
        /\ R.llmResult.decision = "HOLD"
        /\ Verdict.decision # "APPROVE"
        /\ Verdict.decision = IF Verdict.risk >= holdBelow THEN "REJECT" ELSE "HOLD"

\* the classifier threw on a clean campaign, which a missing HOLD would approve
C4_Witness ==
    /\ Answered /\ ClassifierThrew
    /\ Verdict.risk < approveBelow /\ Verdict.decision = "HOLD"

\* the description names a UPI identifier or a Telegram handle
PaymentInDescription == R.campaign.description \cap {"upi", "telegram"} # {}

MedicalOnly ==
    /\ Includes(RuleText(R.campaign), medicalKeywords)
    /\ ~Includes(RuleText(R.campaign), hasVerificationDocsRegex)
    /\ R.ruleResults.rules = <<"Medical fundraising without verification documents">>

ClassifierClean ==
    /\ R.llmResult.scores = ZeroScores
    /\ R.llmResult.decision = "APPROVE"

OthersClean == UrlComponent = 0 /\ ImageComponent = 0 /\ ClassifierClean

OnePendingItem ==
    /\ Len(moderationQueue) = 1
    /\ moderationQueue[1].status = "PENDING"
    /\ moderationQueue[1].campaign = R.campaign
    /\ moderationQueue[1].moderationResult = Verdict

\* C6 as stated: a pass that trips only the medical-claims heuristic, all else
\* clean, gives a risk in [0.3, 0.6), HOLD and exactly one PENDING queue item.
C6_Original ==
    (Answered /\ MedicalOnly /\ OthersClean) =>
        /\ Verdict.risk >= 3 /\ Verdict.risk < 6
        /\ Verdict.decision = "HOLD"
        /\ OnePendingItem

\* C6 amended: such a pass gives risk 0.4; when approveBelow <= 0.4 < holdBelow
\* (as under the defaults) the decision is HOLD and the pass adds exactly one
\* PENDING item holding the campaign and the verdict.
C6_MedicalOnly ==
    (Answered /\ MedicalOnly /\ OthersClean) =>
        /\ Verdict.risk = 4
        /\ (approveBelow <= 4 /\ 4 < holdBelow) => (Verdict.decision = "HOLD" /\ OnePendingItem)

C6_Witness ==
    /\ Answered /\ MedicalOnly /\ OthersClean
    /\ approveBelow = 3 /\ holdBelow = 6
    /\ Verdict.decision = "HOLD" /\ OnePendingItem

CleanText ==
    ~Includes(RuleText(R.campaign),
              bannedFinancialPhrases \cup paymentBypassRegex \cup medicalKeywords
              \cup impersonationKeywords \cup urgencyPhrases)

NoLinksNoImages ==
    R.campaign.links = <<>> /\ R.campaign.images = <<>> /\ R.files = <<>>

CleanOutcome ==
    /\ Verdict.decision = "APPROVE"
    /\ Verdict.risk < approveBelow
    /\ Verdict.rationale = <<>>
    /\ moderationQueue = <<>>

\* C7 as stated, in its own instance of a text of fewer than 50 words (default
\* thresholds, a verified long-standing creator, a classifier that returns no
\* rationale): clean text, no links, no images and an all-zero classifier that
\* suggests APPROVE give APPROVE, risk < approveBelow, an empty rationale and
\* no queue item.
C7_Original ==
    (/\ Answered /\ CleanText /\ NoLinksNoImages /\ ClassifierClean
     /\ R.llmResult.rationale.items = <<>>
     /\ R.campaign.size \in {"short", "brief"}
     /\ R.campaign.creator = CleanCampaign.creator /\ R.campaign.goal = CleanCampaign.goal
     /\ approveBelow = 3 /\ holdBelow = 6)
    => CleanOutcome

\* no heuristic of the rule engine applies to the campaign
NoHeuristic ==
    /\ CleanText
    /\ R.campaign.size = "long"
    /\ ~(R.campaign.creator.accountAgeDays < 3 /\ R.campaign.goal > 200000)
    /\ ~(~R.campaign.creator.verifiedEmail /\ R.campaign.goal > 100000)

\* C7 amended: a campaign to which no rule heuristic applies (clean text of at
\* least 50 words that is neither repetitive nor duplicated, no high goal from
\* a new or unverified account), without links and images, with an all-zero
\* classifier that suggests APPROVE and gives no rationale, has risk 0 and an
\* empty rationale, and for approveBelow > 0 it is approved and not queued.
C7_CleanCampaign ==
    (/\ Answered /\ NoHeuristic /\ NoLinksNoImages /\ ClassifierClean
     /\ R.llmResult.rationale.items = <<>>)
    => /\ Verdict.risk = 0
       /\ Verdict.rationale = <<>>
       /\ approveBelow > 0 => CleanOutcome

C7_Witness ==
    /\ Answered /\ NoHeuristic /\ NoLinksNoImages /\ ClassifierClean
    /\ R.llmResult.rationale.items = <<>>
    /\ R.campaign.goal > 100000
    /\ CleanOutcome

\* ------------------------------------------------------------ review claims
Position(id) == FindIndex(moderationQueue, id, 1)

\* C8 as stated: a review request on an item that is already REVIEWED fails.
C8_Original ==
    [][\A id \in QueueIds, d \in ReviewDecisions, n \in ReviewNotes, who \in Reviewers :
         (moderationQueue[Position(id)].status = "REVIEWED" /\ Review(id, d, n, who))
         => lastReview'.status # 200]_vars

\* C9 as stated: no step changes an item whose status is REVIEWED.
C9_Original ==
    [][\A k \in 1..Len(moderationQueue) :
         moderationQueue[k].status = "REVIEWED"
         => (k <= Len(moderationQueue') /\ moderationQueue'[k] = moderationQueue[k])]_vars

\* C10: a successful review sets status, reviewer, time and notes of the item it
\* names, overwrites the stored decision and changes nothing else of the item
\* and nothing of any other item.
C10_ReviewFrame ==
    [][\A id \in QueueIds, d \in {"APPROVE", "REJECT"}, n \in ReviewNotes, who \in Reviewers :
         Review(id, d, n, who) =>
           LET k == Position(id)
               old == moderationQueue[k]
               new == moderationQueue'[k]
           IN /\ lastReview'.status = 200
              /\ Len(moderationQueue') = Len(moderationQueue)
              /\ new.status = "REVIEWED"
              /\ new.reviewedBy = who
              /\ new.reviewedAt = now
              /\ new.reviewNotes = n
              /\ new.moderationResult.decision = d
              /\ new.id = old.id /\ new.campaignId = old.campaignId
              /\ new.createdAt = old.createdAt
              /\ new.campaign = old.campaign
              /\ new.moderationResult.risk = old.moderationResult.risk
              /\ new.moderationResult.scores = old.moderationResult.scores
              /\ new.moderationResult.rationale = old.moderationResult.rationale
              /\ \A j \in 1..Len(moderationQueue) :
                   j # k => moderationQueue'[j] = moderationQueue[j]]_vars

\* bob's REJECT is recorded on the second item while the first is still PENDING
C10_Witness ==
    /\ Len(moderationQueue) = 2
    /\ moderationQueue[1].status = "PENDING"
    /\ moderationQueue[2].status = "REVIEWED"
    /\ moderationQueue[2].reviewedBy = "bob"
    /\ moderationQueue[2].moderationResult.decision = "REJECT"
    /\ moderationQueue[2].reviewedAt > moderationQueue[2].createdAt
    /\ lastReview.status = 200

\* C11: a review request whose id matches no queue item answers 404 whatever
\* decision it carries, and leaves the queue unchanged.
C11_NotFound ==
    [][\A id \in {UnknownId} \cup {ItemId(t, rnd) : t \in 0..MaxClock, rnd \in RandomSuffixes},
          d \in ReviewDecisions, n \in ReviewNotes, who \in Reviewers :
         (id \notin QueueIds /\ Review(id, d, n, who))
         => (lastReview'.status = 404 /\ moderationQueue' = moderationQueue)]_vars

\* an unknown id with an invalid decision was answered 404 while an item waits
C11_Witness ==
    /\ lastReview.status = 404
    /\ lastReview.decision = "HOLD"
    /\ lastReview.id \notin QueueIds
    /\ Len(moderationQueue) = 1
    /\ moderationQueue[1].status = "PENDING"

\* C12: a review request for an existing item with a decision other than APPROVE
\* and REJECT answers 400 and leaves the queue, and so the item, unchanged.
C12_InvalidDecision ==
    [][\A id \in QueueIds, d \in ReviewDecisions \ {"APPROVE", "REJECT"},
          n \in ReviewNotes, who \in Reviewers :
         Review(id, d, n, who)
         => (lastReview'.status = 400 /\ moderationQueue' = moderationQueue)]_vars

\* a request without decision was refused and the item is as it was created
C12_Witness ==
    /\ lastReview.status = 400
    /\ lastReview.decision = Undefined
    /\ Len(moderationQueue) = 1
    /\ lastReview.id = moderationQueue[1].id
    /\ moderationQueue[1].status = "PENDING"
    /\ moderationQueue[1].moderationResult.decision = "HOLD"
    /\ moderationQueue[1].reviewedBy = Undefined
    /\ moderationQueue[1].reviewedAt = -1
    /\ moderationQueue[1].reviewNotes = Undefined

\* C13: a moderation request appends exactly one PENDING item holding its
\* campaign and verdict when its verdict is HOLD and leaves the queue unchanged
\* when it is APPROVE or REJECT; no other step of a moderation request changes
\* the queue, so the queue length counts the HOLD verdicts produced.
C13_EnqueueIffHold ==
    [][\A r \in Requests :
         LET answers == req[r].pc = "fuse" /\ req'[r].pc = "done"
                        /\ req'[r].response.status = 200
         IN IF answers /\ req'[r].response.body.decision = "HOLD"
            THEN /\ Len(moderationQueue') = Len(moderationQueue) + 1
                 /\ SubSeq(moderationQueue', 1, Len(moderationQueue)) = moderationQueue
                 /\ LET item == moderationQueue'[Len(moderationQueue')] IN
                    /\ item.status = "PENDING"
                    /\ item.campaign = req[r].campaign
                    /\ item.moderationResult = req'[r].response.body
            ELSE (req'[r] # req[r]) => moderationQueue' = moderationQueue]_vars

\* both requests were in flight together, one was held and queued, the other
\* rejected and not queued
C13_Witness ==
    /\ req["r1"].pc = "done" /\ req["r2"].pc = "done"
    /\ req["r1"].response.status = 200 /\ req["r2"].response.status = 200
    /\ req["r1"].response.body.decision = "REJECT"
    /\ req["r2"].response.body.decision = "HOLD"
    /\ Len(moderationQueue) = 1
    /\ moderationQueue[1].campaign = req["r2"].campaign

\* C14: every item is PENDING when it is created, a status changes only from
\* PENDING to REVIEWED and only in a successful review of that item, and no
\* item goes from REVIEWED back to PENDING.
C14_StatusMonotonic ==
    [][/\ \A k \in 1..Len(moderationQueue) :
            /\ k <= Len(moderationQueue')
            /\ moderationQueue[k].status = "REVIEWED"
                 => moderationQueue'[k].status = "REVIEWED"
            /\ moderationQueue'[k].status # moderationQueue[k].status
                 => /\ moderationQueue[k].status = "PENDING"
                    /\ moderationQueue'[k].status = "REVIEWED"
                    /\ lastReview'.status = 200
                    /\ lastReview'.id = moderationQueue[k].id
       /\ \A k \in (Len(moderationQueue) + 1)..Len(moderationQueue') :
            moderationQueue'[k].status = "PENDING"]_vars

\* a REVIEWED item got a further review request, which was refused, and is
\* still REVIEWED
C14_Witness ==
    /\ Len(moderationQueue) = 1
    /\ moderationQueue[1].status = "REVIEWED"
    /\ lastReview.status = 400
    /\ lastReview.id = moderationQueue[1].id

\* C15: queue items are never deleted: every stored item is at its place in
\* every later state, and the number of stored items never decreases.
C15_NeverDeleted ==
    [][/\ Len(moderationQueue') >= Len(moderationQueue)
       /\ \A k \in 1..Len(moderationQueue) :
            /\ moderationQueue'[k].id = moderationQueue[k].id
            /\ moderationQueue'[k].createdAt = moderationQueue[k].createdAt
            /\ moderationQueue'[k].campaign = moderationQueue[k].campaign]_vars

\* a reviewed item is still stored after a later campaign was queued behind it
C15_Witness ==
    /\ Len(moderationQueue) = 2
    /\ moderationQueue[1].status = "REVIEWED"
    /\ moderationQueue[2].status = "PENDING"
    /\ moderationQueue[2].createdAt >= moderationQueue[1].reviewedAt
    /\ moderationQueue[1].reviewedAt >= 0

PendingIndexes == {k \in 1..Len(moderationQueue) : moderationQueue[k].status = "PENDING"}

\* the listing holds exactly the PENDING items, newest first
ListingExact ==
    LET listed == PendingItems IN
    /\ Len(listed) = Cardinality(PendingIndexes)
    /\ \A i \in 1..Len(listed) :
         /\ listed[i].status = "PENDING"
         /\ \E k \in PendingIndexes : listed[i] = moderationQueue[k]
    /\ \A k \in PendingIndexes : \E i \in 1..Len(listed) : listed[i] = moderationQueue[k]
    /\ \A i, j \in 1..Len(listed) : i < j => listed[i].createdAt >= listed[j].createdAt

\* C16: the listing returns exactly the PENDING items, most recently created
\* first, and the stored queue with its order is the same after the call.
C16_Listing ==
    /\ []ListingExact
    /\ [][ListPending => UNCHANGED vars]_vars

\* two PENDING items stored oldest first are listed newest first
C16_Witness ==
    /\ Len(moderationQueue) = 2
    /\ PendingIndexes = {1, 2}
    /\ moderationQueue[1].createdAt < moderationQueue[2].createdAt
    /\ PendingItems = <<moderationQueue[2], moderationQueue[1]>>

\* the classifier adapter has been invoked in this pass
ClassifierInvoked == R.pc \in {"llm", "fuse"} \/ Answered

\* the non-empty OCR texts of the image results, in order
RecognisedTexts ==
    LET Texts[k \in 0..Len(R.imageResults)] ==
          IF k = 0 THEN <<>>
          ELSE IF R.imageResults[k].ocrText # {}
               THEN Append(Texts[k - 1], R.imageResults[k].ocrText)
               ELSE Texts[k - 1]
    IN Texts[Len(R.imageResults)]

ClassifierAnswered == R.pc \in {"fuse", "done"} /\ R.llmOutcome.kind = "json"

\* the raw value the classifier gave category k is missing, not a number or
\* outside [0,1]
Unusable(k) ==
    \/ k \notin DOMAIN R.llmOutcome.scores
    \/ ~R.llmOutcome.scores[k].num
    \/ R.llmOutcome.scores[k].v < 0
    \/ R.llmOutcome.scores[k].v > 10

\* C18 as stated: whatever the classifier returns, the post-processed result
\* has all seven categories, each with a score in [0,1], and a category whose
\* raw score is missing, non-numeric or out of range has score 0.
C18_Original ==
    ClassifierAnswered =>
        /\ DOMAIN R.llmResult.scores = Categories
        /\ \A k \in Categories :
             /\ R.llmResult.scores[k] >= 0 /\ R.llmResult.scores[k] <= 10
             /\ Unusable(k) => R.llmResult.scores[k] = 0

LargestClampedScore == SetMax(0, {R.llmResult.scores[k] : k \in DOMAIN R.llmResult.scores})

\* C19 as stated: when the classifier's decision is not one of the three
\* values, the derived decision is the baseline decision the engine computes,
\* with the configured thresholds, for a risk equal to the largest clamped score.
C19_Original ==
    (/\ ClassifierAnswered
     /\ R.llmOutcome.decision \notin Decisions
     /\ DOMAIN R.llmResult.scores # {})
    => R.llmResult.decision = BaselineDecision(LargestClampedScore, approveBelow, holdBelow)

\* C20 as stated: every request for a well-formed campaign ends with a verdict,
\* whatever the OCR worker and the classifier do, and a classifier failure or
\* malformed answer gives a classifier result that suggests HOLD.
C20_Original ==
    (R.pc = "done" /\ CampaignSchemaOk(R.campaign)) =>
        /\ R.response.status = 200
        /\ (R.llmOutcome.kind \in {"throw", "empty", "badjson", "noscores"}
            \/ (R.llmOutcome.kind = "json" /\ ~R.llmOutcome.rationale.iterable))
           => R.llmResult.decision = "HOLD"

\* the submitted campaign breaks a bound of the campaign schema
Malformed(c) ==
    \/ c.titleLen < 3 \/ c.titleLen > 200
    \/ c.descLen < 20 \/ c.descLen > 5000
    \/ c.goal <= 0
    \/ c.category = ""
    \/ \E i \in 1..Len(c.links) : c.links[i] = "not a url"
    \/ c.creator.accountAgeDays < 0

\* C21: a campaign that fails validation is answered 400 before any signal is
\* computed: no rule, URL, image or classifier result exists, no verdict is
\* produced and the queue is unchanged.
C21_RejectedBeforePipeline ==
    (R.pc # "idle" /\ Malformed(R.campaign)) =>
        /\ R.pc = "done"
        /\ R.response = [status |-> 400, error |-> "Invalid campaign data"]
        /\ R.ruleResults = Idle.ruleResults
        /\ R.urlFindings = <<>>
        /\ R.imageResults = <<>>
        /\ R.signals = Idle.signals
        /\ R.llmResult = Idle.llmResult
        /\ R.enqueued = 0
        /\ moderationQueue = <<>>

\* a campaign with goal 0 and an otherwise flawless body was refused
C21_Witness ==
    /\ R.pc = "done" /\ R.response.status = 400
    /\ R.campaign.goal = 0
    /\ R.campaign.titleLen = 20 /\ R.campaign.descLen = 400

\* The verdict a request produces when it runs alone: recomputed from its own
\* campaign, files, recognised texts and classifier outcome only.
SoloImageResults(rq) ==
    [k \in 1..Len(rq.files) |->
        LET res == analyzeImage(rq.files[k], rq.imageResults[k].ocrText) IN
        [imageId |-> k - 1, score |-> res.score, labels |-> res.labels,
         ocrText |-> res.ocrText]]

SoloVerdict(rq) ==
    LET rules == performRuleChecks(rq.campaign)
        urls == checkUrlSafety(rq.campaign.links)
        images == SoloImageResults(rq)
        llm == IF openai THEN ParseLLM(rq.llmOutcome) ELSE getMockLLMResponse(rq.campaign)
        risk == Risk(rules.score, UrlRisk(urls), ImageRisk(images), llm.scores)
    IN [decision |-> Override(BaselineDecision(risk, approveBelow, holdBelow), llm.decision),
        risk |-> risk,
        scores |-> llm.scores,
        rationale |-> PlainEntries(rules.rules) \o PlainEntries(llm.rationale.items)
                      \o UrlRationale(urls) \o ImageRationale(images),
        ruleReasons |-> rules.rules,
        imageFindings |-> ImageFindings(images),
        urlFindings |-> urls]

\* C22: under every interleaving of two requests each verdict is the verdict
\* the request produces alone, a step of one request never changes the other
\* request, and an answering step appends the request's own item once on HOLD
\* and otherwise leaves the queue as it is.
C22_Isolated ==
    /\ [](\A r \in Requests :
            (req[r].pc = "done" /\ req[r].response.status = 200)
            => req[r].response.body = SoloVerdict(req[r]))
    /\ [][\A r \in Requests :
            req'[r] # req[r] =>
              /\ \A o \in Requests \ {r} : req'[o] = req[o]
              /\ \/ moderationQueue' = moderationQueue
                 \/ /\ req'[r].pc = "done"
                    /\ req'[r].response.status = 200
                    /\ req'[r].response.body.decision = "HOLD"
                    /\ Len(moderationQueue') = Len(moderationQueue) + 1
                    /\ SubSeq(moderationQueue', 1, Len(moderationQueue)) = moderationQueue
                    /\ moderationQueue'[Len(moderationQueue')].moderationResult
                         = req'[r].response.body
                    /\ moderationQueue'[Len(moderationQueue')].campaign = req[r].campaign]_vars

\* both requests were held in the same millisecond for different campaigns and
\* both items are stored, the item of r2 first
C22_Witness ==
    /\ req["r1"].pc = "done" /\ req["r2"].pc = "done"
    /\ req["r1"].response.status = 200 /\ req["r2"].response.status = 200
    /\ req["r1"].response.body.decision = "HOLD"
    /\ req["r2"].response.body.decision = "HOLD"
    /\ req["r1"].campaign # req["r2"].campaign
    /\ Len(moderationQueue) = 2
    /\ moderationQueue[1].moderationResult = req["r2"].response.body
    /\ moderationQueue[2].moderationResult = req["r1"].response.body
    /\ moderationQueue[1].createdAt = moderationQueue[2].createdAt

\* the floors of the heuristics that match the campaign of the pass
MatchedFloors ==
    LET table == RuleTable(R.campaign) IN
    {table[i].floor : i \in {j \in 1..Len(table) : table[j].hit}}

\* C23: the rule score is the largest floor among the matched heuristics
\* (0.7, 0.9, 0.4, 0.4, 0.3, 0.3, 0.2, 0.5, 0.3 in check order), 0 when none
\* matches, and there is one rule finding per matched heuristic.
C23_RunningMaximum ==
    (R.pc \notin {"idle"} /\ ~Malformed(R.campaign)) =>
        /\ [i \in 1..9 |-> RuleTable(R.campaign)[i].floor] = <<7, 9, 4, 4, 3, 3, 2, 5, 3>>
        /\ IF MatchedFloors = {} THEN R.ruleResults.score = 0
           ELSE IsMaxOf(R.ruleResults.score, MatchedFloors)
        /\ Len(R.ruleResults.rules) =
             Cardinality({j \in 1..9 : RuleTable(R.campaign)[j].hit})

\* four heuristics match (0.7, 0.9, 0.4, 0.3) and the score is 0.9
C23_Witness ==
    /\ R.pc # "idle"
    /\ MatchedFloors = {7, 9, 4, 3}
    /\ Len(R.ruleResults.rules) = 4
    /\ R.ruleResults.score = 9

HasLabels(result) == result.labels # <<>>

\* the four producer sections of the rationale, built from the findings of the pass
RuleSection == [i \in 1..Len(R.ruleResults.rules) |-> Entry("", R.ruleResults.rules[i], <<>>)]

ClassifierSection ==
    [i \in 1..Len(R.llmResult.rationale.items) |->
        Entry("", R.llmResult.rationale.items[i], <<>>)]

UrlSection ==
    [i \in 1..Len(R.urlFindings) |-> Entry("URL risk: ", R.urlFindings[i].reason, <<>>)]

ImageSection ==
    LET labelled == SelectSeq(R.imageResults, HasLabels) IN
    [i \in 1..Len(labelled) |-> Entry("Image: ", "", labelled[i].labels)]

\* C24: the rationale is the rule findings, then the classifier rationale, then
\* one 'URL risk: ' entry per URL finding, then one 'Image: ' entry per image
\* result with labels, nothing dropped, merged or reordered.
C24_RationaleOrder ==
    Answered =>
        /\ Verdict.rationale = RuleSection \o ClassifierSection \o UrlSection \o ImageSection
        /\ Len(R.ruleResults.rules) = Cardinality({j \in 1..9 : RuleTable(R.campaign)[j].hit})
        /\ R.urlFindings = checkUrlSafety(R.campaign.links)

\* every producer contributed: one rule finding, one classifier entry, two URL
\* findings for the same link and one image entry
C24_Witness ==
    /\ Answered
    /\ Len(RuleSection) = 1 /\ Len(ClassifierSection) = 1
    /\ Len(UrlSection) = 2 /\ Len(ImageSection) = 1
    /\ Len(Verdict.rationale) = 5
    /\ Verdict.rationale[2].text = "flagged by the classifier"
    /\ Verdict.rationale[5].prefix = "Image: "

\* the findings the URL checker returned for link u
FindingsFor(u) == {i \in 1..Len(R.urlFindings) : R.urlFindings[i].url = u}

\* C25 as stated: the URL checker returns at most one finding per input URL
\* (each link occurs once in the campaigns submitted here).
C25_Original ==
    (R.pc # "idle" /\ ~Malformed(R.campaign)) =>
        \A k \in 1..Len(R.campaign.links) :
            Cardinality(FindingsFor(R.campaign.links[k])) <= 1

\* the text recognised in an uploaded image of the pass names a UPI identifier
PaymentInRecognisedText ==
    \E k \in 1..Len(R.imageResults) : "upi id" \in R.imageResults[k].ocrText

\* C26 as stated: a payment-bypass pattern in the text extracted from an image
\* of the submission raises the rule score, and so the risk, to at least 0.9.
C26_Original ==
    (Answered /\ PaymentInRecognisedText) =>
        (R.ruleResults.score >= 9 /\ Verdict.risk >= 9)

\* C27 as stated: any two distinct items of the queue have different ids.
C27_Original ==
    \A i, j \in 1..Len(moderationQueue) :
        i # j => moderationQueue[i].id # moderationQueue[j].id

\* C28: the images of a batch are analysed one after the other in input order:
\* the results so far are those of the first files, the k-th result is labelled
\* img_(k-1) and is the analysis of the k-th file, each step adds the result of
\* exactly the next file, and the classifier sees one result per file.
C28_Sequential ==
    /\ [](/\ Len(R.imageResults) <= Len(R.files)
          /\ \A k \in 1..Len(R.imageResults) :
               LET res == analyzeImage(R.files[k], R.imageResults[k].ocrText) IN
               /\ R.imageResults[k].imageId = k - 1
               /\ R.imageResults[k].score = res.score
               /\ R.imageResults[k].labels = res.labels
          /\ ClassifierInvoked => Len(R.imageResults) = Len(R.files))
    /\ [][R.imageResults' # R.imageResults =>
            \/ R.imageResults' = <<>>
            \/ /\ Len(R.imageResults') = Len(R.imageResults) + 1
               /\ SubSeq(R.imageResults', 1, Len(R.imageResults)) = R.imageResults]_vars

\* a batch of a small and an oversized image was analysed: the second result,
\* img_1, carries the size label
C28_Witness ==
    /\ Answered
    /\ R.files = <<PngFile, LargeFile>>
    /\ R.imageResults[1].labels = <<>>
    /\ R.imageResults[2].labels = <<"large_file_size">>
    /\ Verdict.imageFindings[2].imageId = 1
    /\ Verdict.imageFindings[2].labels = <<"large_file_size">>


\* C29: a Quick Approve or Quick Reject click on a pending item of the
\* dashboard makes the review call for that same item with that decision; it
\* never makes no call and never makes the call for another item.
C29_Original ==
    quickClick # <<>> =>
        /\ quickClick[1].call.state = "sent"
        /\ quickClick[1].call.id = quickClick[1].id
        /\ quickClick[1].call.decision = quickClick[1].decision

\* the click made no call at all
C29_SubmitsNothing == quickClick # <<>> /\ quickClick[1].call.state = "none"

\* the click made the call for an item other than the clicked one
C29_SubmitsOther ==
    /\ quickClick # <<>>
    /\ quickClick[1].call.state = "sent"
    /\ quickClick[1].call.id # quickClick[1].id

\* C30: in every reachable state of the queue, every PENDING item carries the
\* verdict decision HOLD and no reviewedAt, reviewedBy or reviewNotes, every
\* REVIEWED item carries the decision APPROVE or REJECT and a reviewedAt
\* timestamp, and the queueSize of GET /health is the number of PENDING items.
C30_StatusAgrees ==
    /\ \A i \in 1..Len(moderationQueue) :
         LET item == moderationQueue[i] IN
         /\ item.status \in {"PENDING", "REVIEWED"}
         /\ item.status = "PENDING" =>
                /\ item.moderationResult.decision = "HOLD"
                /\ item.reviewedAt = -1
                /\ item.reviewedBy = Undefined
                /\ item.reviewNotes = Undefined
         /\ item.status = "REVIEWED" =>
                /\ item.moderationResult.decision \in {"APPROVE", "REJECT"}
                /\ item.reviewedAt \in 0..now
    /\ QueueSize =
         Cardinality({i \in 1..Len(moderationQueue) : moderationQueue[i].status = "PENDING"})

\* a rejected item reviewed after the clock advanced, next to a pending one:
\* queueSize is 1 of 2
C30_Witness ==
    /\ Len(moderationQueue) = 2
    /\ moderationQueue[1].status = "REVIEWED"
    /\ moderationQueue[1].moderationResult.decision = "REJECT"
    /\ moderationQueue[1].reviewedAt = 1
    /\ moderationQueue[1].reviewedBy = "bob"
    /\ moderationQueue[2].status = "PENDING"
    /\ moderationQueue[2].moderationResult.decision = "HOLD"
    /\ QueueSize = 1
====
